---- MODULE Spec2Model ----
(***************************************************************************)
(* Model of the Comic Vine proxy gateway, backend/app.py.                  *)
(*                                                                         *)
(* Strings whose content the code inspects (series names, publisher names, *)
(* search queries) are sequences of ASCII codes, so that lower(), sorting  *)
(* and substring tests are computed, not assumed.  Addresses, routes and   *)
(* URLs, which the code only compares for equality or classifies, are TLA+ *)
(* strings or records of the facts the code tests.                         *)
(***************************************************************************)
EXTENDS Integers, Sequences, FiniteSets, TLC

(***************************************************************************)
(* Bounds of the model.                                                    *)
(***************************************************************************)
\* Page size of the catalog fetch (limit = 100 in the source), scaled down.
PageLimit == 1
\* Cap of the catalog fetch (max_series = 1000 in the source), scaled down.
MaxSeries == 2
\* Length of the search answer (series_list[:250] in the source), scaled down.
SearchLimit == 1
\* Number of pages of one catalog fetch: at its last page the upstream
\* answers a short page, fails, or fills the fetch up to its cap.
MaxPages == 2
\* Number of request threads.
NumThreads == 2
\* Capacity of the image cache (maxsize=200 in the source), scaled down.
MaxCache == 2
\* Ticks of the clock in the rate limiter's interval of 1.0 second.
Interval == 2
\* Last tick of the clock.
MaxClock == 5
\* Last tick of the clock where one request is followed through all of its
\* upstream calls.
LongClock == 8

\* The last tick of the clock when a request is followed through all the
\* calls the cap on count allows: the first call at Interval, nine more
\* Interval apart.
CapClock == 20

(***************************************************************************)
(* Program constants.                                                      *)
(***************************************************************************)
\* IP_REFRESH_HOURS = int(os.getenv('IP_REFRESH_HOURS', '24'))
IP_REFRESH_HOURS == 24
\* time.sleep(3600) in the except branch of the workers
BACKOFF_SECONDS == 3600
\* LOCALHOST_IPS = ['127.0.0.1', '::1']
LOCALHOST_IPS == <<"127.0.0.1", "::1">>

Range(s) == {s[i] : i \in 1..Len(s)}

(***************************************************************************)
(* Strings as sequences of ASCII codes.                                    *)
(***************************************************************************)
\* str.lower() of one ASCII character
LowerChar(c) == IF c >= 65 /\ c <= 90 THEN c + 32 ELSE c

\* str.lower()
Lower(s) == [i \in 1..Len(s) |-> LowerChar(s[i])]

\* s < t in Python's string order (lexicographic by code point)
StrLess(s, t) ==
    \E k \in 1..(Len(t)) :
        /\ \A i \in 1..(k - 1) : i <= Len(s) /\ s[i] = t[i]
        /\ \/ k = Len(s) + 1
           \/ k <= Len(s) /\ s[k] < t[k]

RECURSIVE DigitsOf(_)
\* str(n) for n >= 0
DigitsOf(n) == IF n < 10 THEN <<48 + n>> ELSE DigitsOf(n \div 10) \o <<48 + (n % 10)>>

\* "Alpha Force", "alpha", "zzz", "aa", "Marvel", "Unknown", ""
S_AlphaForce == <<65, 108, 112, 104, 97, 32, 70, 111, 114, 99, 101>>
S_alpha == <<97, 108, 112, 104, 97>>
S_zzz == <<122, 122, 122>>
S_aa == <<97, 97>>
S_Marvel == <<77, 97, 114, 118, 101, 108>>
S_Unknown == <<85, 110, 107, 110, 111, 119, 110>>
S_Empty == <<>>

VARIABLES
    runMode,              \* "main": python app.py; "import": loaded by a WSGI server
    ENABLE_IP_WHITELIST,  \* configuration, line 23
    COMIC_VINE_API_KEY,   \* configuration, line 25: TRUE iff a key is configured
    mainPc,               \* position of the thread that executes the module
    TRMNL_IPS,            \* the allow-set
    last_ip_refresh,      \* 0 is None, 1 a datetime: the code tests it for None only
    SERIES_DATA,          \* the catalog
    last_series_refresh,  \* 0 is None, 1 a datetime
    ipPc,                 \* ip_refresh_worker: "off", "sleep", "fetch"
    ipDelay,              \* seconds the worker slept before its latest attempt
    ipLast,               \* the latest allow-list refresh: who ran it, outcome, set before
    seriesPc,             \* series_refresh_worker: "off", "sleep", "fetch"
    fetchPc,              \* fetch_popular_series: "idle", "page", "sleep"
    all_series,           \* its accumulator
    offset,               \* its page offset
    seriesLast,           \* the latest catalog refresh: who ran it, its outcome
    resp,                 \* the response sent by the latest step, if any
    thr,                  \* the request threads: where each is in its handler
    imageCache,           \* lru_cache of fetch_comic_vine_image, least recent first
    now,                  \* time.time(), in ticks
    last_api_request_time,
    api_request_lock,     \* the thread that holds it, 0 if free
    grants,               \* the values last_api_request_time was given, in order
    pageCalls,            \* the times at which a catalog page was requested
    fetchWakeAt           \* when the asyncio.sleep(1) of the catalog fetch ends

vars == <<runMode, ENABLE_IP_WHITELIST, COMIC_VINE_API_KEY, mainPc, TRMNL_IPS,
          last_ip_refresh, SERIES_DATA, last_series_refresh, ipPc, ipDelay,
          ipLast, seriesPc, fetchPc, all_series, offset, seriesLast, resp, thr,
          imageCache, now, last_api_request_time, api_request_lock, grants,
          pageCalls, fetchWakeAt>>

configVars == <<runMode, ENABLE_IP_WHITELIST, COMIC_VINE_API_KEY>>
ipVars == <<TRMNL_IPS, last_ip_refresh, ipPc, ipDelay, ipLast>>
seriesVars == <<SERIES_DATA, last_series_refresh, seriesPc, fetchPc, all_series,
                offset, seriesLast>>
rateVars == <<now, last_api_request_time, api_request_lock, grants>>
pageTimeVars == <<pageCalls, fetchWakeAt>>
\* What only request threads that fetch or call the metadata API change, and
\* the clock.
threadVars == <<thr, imageCache, rateVars>>

\* The request threads of the server.
Threads == 1..NumThreads

IdleThread ==
    [pc |-> "idle", url |-> <<>>, client |-> "", i |-> 0, n |-> 0, wake |-> 0,
     seed |-> "", series_ids |-> <<>>, count |-> 0,
     rng |-> [seed |-> "", k |-> 0], queries |-> <<>>]

\* The clock when the process starts: time.time() is far beyond 1.0, so the
\* first caller of the rate limiter never sleeps.
StartTime == Interval

NoResp ==
    [route |-> "none", client |-> "", q |-> <<>>, status |-> 0, ran |-> FALSE,
     body |-> <<>>]

(***************************************************************************)
(* The IP-list service and fetch_trmnl_ips.                                *)
(***************************************************************************)
\* What GET https://usetrmnl.com/api/ips can do: answer 2xx with the two
\* lists, fail in transport, answer a non-2xx status, or answer a body that
\* is not JSON.
IpListReplies ==
    { [kind |-> "ok", ipv4 |-> <<>>, ipv6 |-> <<>>],
      [kind |-> "ok", ipv4 |-> <<"10.0.0.1">>, ipv6 |-> <<"2001:db8::1">>] }
    \cup [kind : {"transport", "status", "json"}, ipv4 : {<<>>}, ipv6 : {<<>>}]

\* The allow-set kept through a failed fetch: what a failed fetch would
\* return if the previous set were retained.
KeepPreviousIps == TRMNL_IPS

\* except Exception: return set(LOCALHOST_IPS)
FailedFetchIps == Range(LOCALHOST_IPS)

\* fetch_trmnl_ips
fetch_trmnl_ips(reply) ==
    IF reply.kind = "ok"
    THEN Range(reply.ipv4 \o reply.ipv6 \o LOCALHOST_IPS)
    ELSE FailedFetchIps

IpOutcome(reply) == IF reply.kind = "ok" THEN "ok" ELSE "failed"

(***************************************************************************)
(* The metadata API's volumes endpoint and fetch_popular_series.           *)
(***************************************************************************)
\* A volume as the API returns it.  id = 0 and name = <<>> stand for a
\* missing or null field (both falsy in Python); count_null is a JSON null
\* count_of_issues; publisher = <<>> is a missing or null publisher.
Volume(id, name, count, count_null, year, publisher) ==
    [id |-> id, name |-> name, count_of_issues |-> count, count_null |-> count_null,
     start_year |-> year, publisher |-> publisher]

\* "Alpha Force" sorts before "aa" by code point and behind it by lower().
ValidVolumes ==
    { Volume(100, S_AlphaForce, 12, FALSE, 1990, S_Marvel),
      Volume(7, S_aa, 1, FALSE, 0, S_Empty) }

InvalidVolumes ==
    { Volume(0, S_zzz, 5, FALSE, 1990, S_Marvel),
      Volume(9, S_Empty, 5, FALSE, 1990, S_Marvel),
      Volume(11, S_alpha, 0, FALSE, 1990, S_Marvel) }

NullCountVolumes == { Volume(12, S_alpha, 0, TRUE, 1990, S_Marvel) }

Volumes == ValidVolumes \cup InvalidVolumes \cup NullCountVolumes

SeqsUpTo(S, n) == UNION { [1..k -> S] : k \in 0..n }

\* What GET /api/volumes/ can do for one page: a 2xx JSON answer with at most
\* `limit` results, or a failure.
PageReplies ==
    [kind : {"ok"}, results : SeqsUpTo(Volumes, PageLimit)]
    \cup [kind : {"transport", "status", "json"}, results : {<<>>}]

\* The loop body without its two `continue` tests: every volume is kept.
AppendUnfiltered(acc, volume) ==
    IF Len(acc) >= MaxSeries THEN acc
    ELSE Append(acc, [id |-> volume.id,
                      name |-> volume.name,
                      start_year |-> volume.start_year,
                      issue_count |-> volume.count_of_issues,
                      publisher_name |-> IF volume.publisher = <<>>
                                         THEN S_Unknown ELSE volume.publisher])

\* The body of `for volume in data['results']` for one volume: the
\* accumulator after it.
AppendVolume(acc, volume) ==
    IF Len(acc) >= MaxSeries THEN acc
    ELSE IF volume.id = 0 \/ volume.name = <<>> THEN acc
    ELSE IF volume.count_of_issues < 1 THEN acc
    ELSE Append(acc, [id |-> volume.id,
                      name |-> volume.name,
                      start_year |-> volume.start_year,
                      issue_count |-> volume.count_of_issues,
                      publisher_name |-> IF volume.publisher = <<>>
                                         THEN S_Unknown ELSE volume.publisher])

RECURSIVE AppendVolumes(_, _)
AppendVolumes(acc, results) ==
    IF results = <<>> THEN acc
    ELSE AppendVolumes(AppendVolume(acc, Head(results)), Tail(results))

\* `issue_count < 1` raises TypeError on a null count, unless the loop has
\* left (cap reached) or skipped the volume (no id, no name) before.
RECURSIVE PageRaises(_, _)
PageRaises(acc, results) ==
    IF results = <<>> \/ Len(acc) >= MaxSeries THEN FALSE
    ELSE LET v == Head(results) IN
         IF v.id # 0 /\ v.name # <<>> /\ v.count_null THEN TRUE
         ELSE PageRaises(AppendVolume(acc, v), Tail(results))

\* key=lambda x: x['name'].lower(); list.sort is stable: an entry goes behind
\* every entry whose key is not greater than its own.
RECURSIVE InsertByName(_, _)
InsertByName(sorted, e) ==
    IF sorted = <<>> THEN <<e>>
    ELSE IF StrLess(Lower(e.name), Lower(Head(sorted).name))
         THEN <<e>> \o sorted
         ELSE <<Head(sorted)>> \o InsertByName(Tail(sorted), e)

\* The list left in the order of the pages (by issue count, descending).
Unsorted(list) == list

RECURSIVE SortByName(_)
\* all_series.sort(key=lambda x: x['name'].lower())
SortByName(list) ==
    IF list = <<>> THEN <<>>
    ELSE InsertByName(SortByName(SubSeq(list, 1, Len(list) - 1)), list[Len(list)])

\* A step that is not a request: no response is pending, none is sent.
NoRequest == resp = NoResp /\ UNCHANGED resp

(***************************************************************************)
(* Process start: the module body, lines 694-743.                          *)
(***************************************************************************)
Init ==
    /\ runMode \in {"main", "import"}
    /\ ENABLE_IP_WHITELIST \in BOOLEAN
    /\ COMIC_VINE_API_KEY \in BOOLEAN
    /\ mainPc = "load"
    /\ TRMNL_IPS = {}
    /\ last_ip_refresh = 0
    /\ SERIES_DATA = <<>>
    /\ last_series_refresh = 0
    /\ ipPc = "off"
    /\ ipDelay = 0
    /\ ipLast = [by |-> "none", outcome |-> "none", before |-> {}]
    /\ seriesPc = "off"
    /\ fetchPc = "idle"
    /\ all_series = <<>>
    /\ offset = 0
    /\ seriesLast = [by |-> "none", outcome |-> "none"]
    /\ resp = NoResp
    /\ thr = [t \in Threads |-> IdleThread]
    /\ imageCache = <<>>
    /\ now = StartTime
    /\ last_api_request_time = 0
    /\ api_request_lock = 0
    /\ grants = <<>>
    /\ pageCalls = {}
    /\ fetchWakeAt = 0

\* The server answers requests: inside app.run when the module is the main
\* program, and once the module is loaded when a WSGI server imported it.
Serving ==
    \/ runMode = "main" /\ mainPc = "app_run"
    \/ runMode = "import" /\ mainPc = "ready"

\* The process is running (its daemon threads with it).
Alive == mainPc # "exited"

\* Where the module body ends: a WSGI server then serves the app; the main
\* program has nothing left to run and exits.
EndOfModule == IF runMode = "main" THEN "exited" ELSE "ready"

\* startup_init from `if COMIC_VINE_API_KEY:` on: enters fetch_popular_series
\* or ends.
EnterSeriesInit ==
    IF COMIC_VINE_API_KEY
    THEN /\ mainPc' = "init_series"
         /\ fetchPc' = "page"
         /\ all_series' = <<>>
         /\ offset' = 0
    ELSE /\ mainPc' = EndOfModule
         /\ UNCHANGED <<fetchPc, all_series, offset>>

\* startup_init from its start: awaits fetch_trmnl_ips, or goes on to the
\* series part.
EnterStartupInit ==
    IF ENABLE_IP_WHITELIST
    THEN /\ mainPc' = "init_ips"
         /\ UNCHANGED <<fetchPc, all_series, offset>>
    ELSE EnterSeriesInit

\* The module body down to line 695: `if __name__ == '__main__': app.run(...)`
\* comes before startup_init is defined and run.
LoadModule ==
    /\ mainPc = "load"
    /\ IF runMode = "main"
       THEN /\ mainPc' = "app_run"
            /\ UNCHANGED <<fetchPc, all_series, offset>>
       ELSE EnterStartupInit
    /\ NoRequest
    /\ UNCHANGED <<configVars, threadVars, pageTimeVars, ipVars, SERIES_DATA, last_series_refresh, seriesPc,
                   seriesLast>>

\* app.run returns (the server is shut down); the module body continues with
\* lines 698-743.
AppRunReturns ==
    /\ runMode = "main"
    /\ mainPc = "app_run"
    /\ EnterStartupInit
    /\ NoRequest
    /\ UNCHANGED <<configVars, threadVars, pageTimeVars, ipVars, SERIES_DATA, last_series_refresh, seriesPc,
                   seriesLast>>

(***************************************************************************)
(* Allow-list refresh.                                                     *)
(***************************************************************************)
\* TRMNL_IPS = ips; last_ip_refresh = datetime.now(), under TRMNL_IPS_LOCK
StoreIps(by, reply) ==
    /\ TRMNL_IPS' = fetch_trmnl_ips(reply)
    /\ last_ip_refresh' = 1
    /\ ipLast' = [by |-> by, outcome |-> IpOutcome(reply), before |-> TRMNL_IPS]

\* startup_init, lines 708-714: the fetch answers, the allow-set is stored,
\* the refresh worker is started.
StartupIps ==
    /\ mainPc = "init_ips"
    /\ \E reply \in IpListReplies : StoreIps("startup", reply)
    /\ ipPc' = "sleep"
    /\ EnterSeriesInit
    /\ NoRequest
    /\ UNCHANGED <<configVars, threadVars, pageTimeVars, ipDelay, SERIES_DATA, last_series_refresh, seriesPc,
                   seriesLast>>

\* ip_refresh_worker: time.sleep(IP_REFRESH_HOURS * 3600) returns and
\* update_trmnl_ips_sync starts its fetch.  update_trmnl_ips_sync and
\* fetch_trmnl_ips catch every Exception, so the worker's except branch
\* (sleep 3600) is never entered.
IpWorkerWake ==
    /\ Alive
    /\ ipPc = "sleep"
    /\ ipPc' = "fetch"
    /\ ipDelay' = IP_REFRESH_HOURS * 3600
    /\ NoRequest
    /\ UNCHANGED <<configVars, threadVars, pageTimeVars, mainPc, TRMNL_IPS, last_ip_refresh, ipLast, seriesVars>>

\* A worker that a failed fetch ends.
IpWorkerStopsOnFailure ==
    /\ Alive
    /\ ipPc = "fetch"
    /\ \E reply \in IpListReplies :
         /\ StoreIps("worker", reply)
         /\ ipPc' = IF reply.kind = "ok" THEN "sleep" ELSE "off"
    /\ NoRequest
    /\ UNCHANGED <<configVars, threadVars, pageTimeVars, mainPc, ipDelay, seriesVars>>

\* update_trmnl_ips_sync: the fetch answers and the allow-set is stored.
IpWorkerRefresh ==
    /\ Alive
    /\ ipPc = "fetch"
    /\ \E reply \in IpListReplies : StoreIps("worker", reply)
    /\ ipPc' = "sleep"
    /\ NoRequest
    /\ UNCHANGED <<configVars, threadVars, pageTimeVars, mainPc, ipDelay, seriesVars>>

(***************************************************************************)
(* Catalog refresh.                                                        *)
(***************************************************************************)
\* Who runs fetch_popular_series now.
FetchCaller == IF mainPc = "init_series" THEN "startup" ELSE "worker"

\* except Exception: return []
FailedFetchSeries == <<>>

\* fetch_popular_series returns `series` to its caller, which stores it
\* (SERIES_DATA = series; last_series_refresh = datetime.now(), under
\* SERIES_DATA_LOCK); startup_init then starts the worker and ends.
ReturnSeries(series, outcome) ==
    /\ SERIES_DATA' = series
    /\ last_series_refresh' = 1
    /\ seriesLast' = [by |-> FetchCaller, outcome |-> outcome]
    /\ fetchPc' = "idle"
    /\ all_series' = <<>>
    /\ offset' = 0
    /\ seriesPc' = "sleep"
    /\ mainPc' = IF mainPc = "init_series" THEN EndOfModule ELSE mainPc

\* One pass of the while loop, from the GET to the break, the return or the
\* asyncio.sleep(1): what it does to the catalog.
PageStep(replies) ==
    /\ Alive
    /\ fetchPc = "page"
    /\ \E reply \in replies :
         IF reply.kind # "ok" \/ PageRaises(all_series, reply.results)
         THEN ReturnSeries(FailedFetchSeries, "failed")
         ELSE IF reply.results = <<>>
         THEN ReturnSeries(SortByName(all_series), "ok")
         ELSE IF Len(reply.results) < PageLimit
         THEN ReturnSeries(SortByName(AppendVolumes(all_series, reply.results)), "ok")
         ELSE /\ \/ offset < (MaxPages - 1) * PageLimit
                 \/ Len(AppendVolumes(all_series, reply.results)) >= MaxSeries
              /\ all_series' = AppendVolumes(all_series, reply.results)
              /\ offset' = offset + PageLimit
              /\ fetchPc' = "sleep"
              /\ UNCHANGED <<SERIES_DATA, last_series_refresh, seriesLast, seriesPc,
                             mainPc>>
    /\ NoRequest
    /\ UNCHANGED <<configVars, ipVars, threadVars>>

\* A loop whose condition is always true: another page whatever the size
\* of the accumulator.
WakeStepIgnoresCap ==
    /\ Alive
    /\ fetchPc = "sleep"
    /\ fetchPc' = "page"
    /\ UNCHANGED <<SERIES_DATA, last_series_refresh, seriesLast, seriesPc,
                   mainPc, all_series, offset>>
    /\ NoRequest
    /\ UNCHANGED <<configVars, ipVars, threadVars>>

\* asyncio.sleep(1) returns and the while condition is tested again.
WakeStep ==
    /\ Alive
    /\ fetchPc = "sleep"
    /\ IF Len(all_series) < MaxSeries
       THEN /\ fetchPc' = "page"
            /\ UNCHANGED <<SERIES_DATA, last_series_refresh, seriesLast, seriesPc,
                           mainPc, all_series, offset>>
       ELSE ReturnSeries(SortByName(all_series), "ok")
    /\ NoRequest
    /\ UNCHANGED <<configVars, ipVars, threadVars>>

\* The two steps of fetch_popular_series with the clock left out.
FetchPage == PageStep(PageReplies) /\ UNCHANGED pageTimeVars

FetchWake == WakeStep /\ UNCHANGED pageTimeVars

\* series_refresh_worker: time.sleep(24 * 3600) returns and
\* update_series_data_sync enters fetch_popular_series.
SeriesWorkerWake ==
    /\ Alive
    /\ seriesPc = "sleep"
    /\ fetchPc = "idle"
    /\ seriesPc' = "fetch"
    /\ fetchPc' = "page"
    /\ all_series' = <<>>
    /\ offset' = 0
    /\ NoRequest
    /\ UNCHANGED <<configVars, threadVars, pageTimeVars, mainPc, ipVars, SERIES_DATA, last_series_refresh,
                   seriesLast>>

(***************************************************************************)
(* Inbound requests.                                                       *)
(***************************************************************************)
\* The Host header of the requests.
GatewayHost == "proxy.example"

\* A request: route, method, transport peer, the three proxy headers (<<>> is
\* an absent header, <<v>> one with value v; X-Forwarded-For is the list its
\* value splits into at the commas, <<"">> for an empty value), the Host
\* header, and the parameters the handlers read: the search text, the url of
\* the image route, series_ids, count and seed of the sample route ("" is
\* no seed or an empty one).
Request(route, method, remote, cf, xff, xri, q) ==
    [route |-> route, method |-> method, remote_addr |-> remote,
     cf |-> cf, xff |-> xff, xri |-> xri, host |-> GatewayHost, q |-> q,
     url |-> <<>>, series_ids |-> <<>>, count |-> 0, seed |-> ""]

\* str.strip() of an address with a blank beside it
strip(s) ==
    CASE s = "10.0.0.3 " -> "10.0.0.3"
      [] s = " 10.0.0.2" -> "10.0.0.2"
      [] OTHER -> s

\* `if request.headers.get(name)`: the header is there and its value is not
\* the empty string.
Truthy(header) == header # <<>> /\ header # <<"">>

\* get_client_ip with X-Forwarded-For looked at first.
ForwardedForFirst(req) ==
    IF Truthy(req.xff) THEN strip(req.xff[1])
    ELSE IF Truthy(req.cf) THEN strip(req.cf[1])
    ELSE IF Truthy(req.xri) THEN strip(req.xri[1])
    ELSE req.remote_addr

\* get_client_ip
get_client_ip(req) ==
    IF Truthy(req.cf) THEN strip(req.cf[1])
    ELSE IF Truthy(req.xff) THEN strip(req.xff[1])
    ELSE IF Truthy(req.xri) THEN strip(req.xri[1])
    ELSE req.remote_addr

\* get_allowed_ips
get_allowed_ips == TRMNL_IPS

\* A decorator that lets every request through.
AdmitAll(req) == TRUE

\* require_whitelisted_ip: TRUE iff the decorated function is called.
Admitted(req) ==
    IF ~ENABLE_IP_WHITELIST THEN TRUE
    ELSE get_client_ip(req) \in get_allowed_ips

\* The JSON body of the 403 answer.
AccessDenied ==
    [error |-> "Access denied",
     message |-> "Your IP address is not authorized to access this service"]

\* The 403 answer of require_whitelisted_ip.
Denied(req) ==
    [route |-> req.route, client |-> get_client_ip(req), q |-> req.q,
     status |-> 403, ran |-> FALSE, body |-> AccessDenied]

\* A 200 answer of a handler that ran.
Ok(req, status, body) ==
    [route |-> req.route, client |-> get_client_ip(req), q |-> req.q,
     status |-> status, ran |-> TRUE, body |-> body]

\* s[:n]
Take(s, n) == SubSeq(s, 1, IF Len(s) < n THEN Len(s) ELSE n)

\* s[-n:]
TakeLast(s, n) == SubSeq(s, IF Len(s) < n THEN 1 ELSE Len(s) - n + 1, Len(s))

\* " (", ")", " - ", " [", " issues]"
S_OpenParen == <<32, 40>>
S_CloseParen == <<41>>
S_Dash == <<32, 45, 32>>
S_OpenBracket == <<32, 91>>
S_Issues == <<32, 105, 115, 115, 117, 101, 115, 93>>

\* The display name search_series builds for one series.
display_name(series) ==
    series.name
    \o (IF series.start_year # 0
        THEN S_OpenParen \o DigitsOf(series.start_year) \o S_CloseParen ELSE <<>>)
    \o (IF series.publisher_name # <<>> THEN S_Dash \o series.publisher_name ELSE <<>>)
    \o S_OpenBracket \o DigitsOf(series.issue_count) \o S_Issues

\* formatted_results: { display_name: str(series['id']) } for each series
Formatted(results) ==
    [i \in 1..Len(results) |->
        [label |-> display_name(results[i]), value |-> DigitsOf(results[i].id)]]

\* The number of series debug_series shows from each end.
DebugWindow == 10

\* index: not decorated with require_whitelisted_ip
index(req) == Ok(req, 200, <<>>)

\* debug_series: not decorated with require_whitelisted_ip
debug_series(req) ==
    LET first_10 == Take(SERIES_DATA, DebugWindow)
        last_10 == IF Len(SERIES_DATA) >= DebugWindow
                   THEN TakeLast(SERIES_DATA, DebugWindow) ELSE <<>>
    IN Ok(req, 200,
          [total_series |-> Len(SERIES_DATA),
           last_refresh |-> last_series_refresh,
           first_10_series |-> first_10,
           last_10_series |-> last_10,
           first_name |-> IF first_10 # <<>> THEN first_10[1].name ELSE <<>>,
           last_name |-> IF last_10 # <<>> THEN last_10[Len(last_10)].name ELSE <<>>])

\* health: not decorated
health(req) ==
    Ok(req, 200,
       [enabled |-> ENABLE_IP_WHITELIST,
        your_ip |-> get_client_ip(req),
        whitelisted |-> IF ENABLE_IP_WHITELIST
                        THEN get_client_ip(req) \in get_allowed_ips ELSE TRUE,
        ips_loaded |-> IF ENABLE_IP_WHITELIST THEN Cardinality(TRMNL_IPS) ELSE 0,
        last_refresh |-> IF ENABLE_IP_WHITELIST THEN last_ip_refresh ELSE 0,
        api_key_configured |-> COMIC_VINE_API_KEY,
        series_count |-> Len(SERIES_DATA),
        series_last_refresh |-> last_series_refresh])

\* search_series: not decorated; the request's query is not read.
search_series(req) ==
    IF req.method = "OPTIONS" THEN Ok(req, 204, <<>>)
    ELSE Ok(req, 200, Formatted(Take(SERIES_DATA, SearchLimit)))

\* The search texts a request may carry.
Queries == {S_Empty, S_alpha, S_zzz}

\* Requests without proxy headers.
Requests(route, methods, clients, queries) ==
    { Request(route, m, c, <<>>, <<>>, <<>>, q) :
        m \in methods, c \in clients, q \in queries }

\* A handler that only reads: its answer is sent, nothing else changes.
Answer(r) ==
    /\ Serving
    /\ resp = NoResp
    /\ resp' = r
    /\ UNCHANGED <<configVars, threadVars, pageTimeVars, mainPc, ipVars, seriesVars>>

\* The response has left; resp holds the response of one step only.
Sent ==
    /\ resp # NoResp
    /\ resp' = NoResp
    /\ UNCHANGED <<configVars, threadVars, pageTimeVars, mainPc, ipVars, seriesVars>>

Outsiders == {"127.0.0.1", "203.0.113.9"}

Index == \E req \in Requests("/", {"GET"}, Outsiders, {S_Empty}) : Answer(index(req))

DebugSeries ==
    \E req \in Requests("/series/debug", {"GET"}, Outsiders, {S_Empty}) :
        Answer(debug_series(req))

\* health behind the allow-list check, as the decorated routes are.
HealthGated ==
    \E req \in Requests("/health", {"GET"}, Outsiders, {S_Empty}) :
        Answer(IF Admitted(req) THEN health(req) ELSE Denied(req))

Health ==
    \E req \in Requests("/health", {"GET"}, Outsiders, {S_Empty}) : Answer(health(req))

SearchSeries ==
    \E req \in Requests("/series/search", {"GET"}, {"203.0.113.9"}, Queries)
                \cup Requests("/series/search", {"OPTIONS"}, {"203.0.113.9"}, {S_Empty}) :
        Answer(search_series(req))

(***************************************************************************)
(* Image serving: proxy_image and fetch_comic_vine_image.                  *)
(*                                                                         *)
(* A URL is the sequence of its pieces; `in`, startswith and endswith are  *)
(* computed on the pieces.                                                 *)
(***************************************************************************)
\* 'https://comicvine.gamespot.com/' and 'http://comicvine.gamespot.com/'
CV_HTTPS == <<"https://", "comicvine.gamespot.com", "/">>
CV_HTTP == <<"http://", "comicvine.gamespot.com", "/">>
\* '/a/uploads/'
CDN_PATH == <<"/", "a/uploads/">>

StartsWith(s, prefix) ==
    Len(prefix) <= Len(s) /\ SubSeq(s, 1, Len(prefix)) = prefix

EndsWith(s, suffix) ==
    Len(suffix) <= Len(s) /\ SubSeq(s, Len(s) - Len(suffix) + 1, Len(s)) = suffix

\* sub in s
Within(sub, s) ==
    \E k \in 0..(Len(s) - Len(sub)) : SubSeq(s, k + 1, k + Len(sub)) = sub

\* urllib.parse.unquote of one piece: a percent escape becomes its character.
UnquotePiece(piece) ==
    CASE piece = "%2F" -> "/"
      [] piece = "%3A%2F%2F" -> "://"
      [] OTHER -> piece

\* urllib.parse.unquote
unquote(url) == [k \in 1..Len(url) |-> UnquotePiece(url[k])]

\* str.lower() of one piece of a URL
LowerPiece(piece) ==
    CASE piece = ".PNG" -> ".png"
      [] piece = ".WEBP" -> ".webp"
      [] piece = ".JPG" -> ".jpg"
      [] OTHER -> piece

LowerUrl(url) == [k \in 1..Len(url) |-> LowerPiece(url[k])]

\* The checks of proxy_image without the one of the CDN path.
UrlErrorWithoutPathCheck(req) ==
    IF req.url = <<>> THEN "Missing url parameter"
    ELSE LET url == unquote(req.url) IN
         IF Within(<<"trmnl.bettens.dev">>, url) \/ Within(<<req.host>>, url)
         THEN "Cannot proxy images from this server"
         ELSE IF ~StartsWith(url, CV_HTTPS) /\ ~StartsWith(url, CV_HTTP)
         THEN "Invalid URL - only Comic Vine images allowed"
         ELSE ""

\* The checks of proxy_image with the scheme and the host of the upstream
\* tested apart, the url's own host not looked at.
UrlErrorHostUnchecked(req) ==
    IF req.url = <<>> THEN "Missing url parameter"
    ELSE LET url == unquote(req.url) IN
         IF ~StartsWith(url, <<"https://">>) /\ ~StartsWith(url, <<"http://">>)
         THEN "Invalid URL - only Comic Vine images allowed"
         ELSE IF ~Within(CDN_PATH, url)
         THEN "Invalid URL - must be a Comic Vine image"
         ELSE ""

\* The checks of proxy_image on the decoded url: the reason of the 400, or
\* "" if the url passes.
ImageUrlError(req) ==
    IF req.url = <<>> THEN "Missing url parameter"
    ELSE LET url == unquote(req.url) IN
         IF Within(<<"trmnl.bettens.dev">>, url) \/ Within(<<req.host>>, url)
         THEN "Cannot proxy images from this server"
         ELSE IF ~StartsWith(url, CV_HTTPS) /\ ~StartsWith(url, CV_HTTP)
         THEN "Invalid URL - only Comic Vine images allowed"
         ELSE IF ~Within(CDN_PATH, url)
         THEN "Invalid URL - must be a Comic Vine image"
         ELSE ""

\* content_type of proxy_image
ContentType(url) ==
    IF EndsWith(LowerUrl(url), <<".png">>) THEN "image/png"
    ELSE IF EndsWith(LowerUrl(url), <<".webp">>) THEN "image/webp"
    ELSE "image/jpeg"

\* What the GET of an image can do: answer 2xx with bytes, answer a non-2xx
\* status (HTTPError), or fail in transport (RequestException).
ImageReplies ==
    { [kind |-> "ok", content |-> "JPEG-1"], [kind |-> "ok", content |-> "JPEG-2"],
      [kind |-> "http_error", content |-> ""], [kind |-> "transport", content |-> ""] }

\* Python's None as the value fetch_comic_vine_image returns.
None == "None"

\* fetch_comic_vine_image's body: response.content, or None from both except
\* branches.
fetch_comic_vine_image(reply) ==
    IF reply.kind = "ok" THEN reply.content ELSE None

\* lru_cache: the position of the key, 0 if it is absent.
CachePos(cache, url) ==
    IF \E k \in 1..Len(cache) : cache[k].url = url
    THEN CHOOSE k \in 1..Len(cache) : cache[k].url = url
    ELSE 0

Without(cache, k) == SubSeq(cache, 1, k - 1) \o SubSeq(cache, k + 1, Len(cache))

\* lru_cache on a hit: the entry becomes the most recently used.
CacheTouch(cache, url) ==
    LET k == CachePos(cache, url) IN Append(Without(cache, k), cache[k])

\* A cache that stores nothing.
CacheStoreNothing(cache, url, result) == cache

\* A cache that at capacity drops its most recently used entry.
CacheStoreDropsNewest(cache, url, result) ==
    IF CachePos(cache, url) # 0 THEN cache
    ELSE IF Len(cache) >= MaxCache
    THEN Append(SubSeq(cache, 1, Len(cache) - 1), [url |-> url, content |-> result])
    ELSE Append(cache, [url |-> url, content |-> result])

\* lru_cache after the wrapped function returned `result` on a miss: every
\* returned value is stored, None included; a key another thread stored in
\* between is left alone; at maxsize the least recently used entry goes.
CacheStore(cache, url, result) ==
    IF CachePos(cache, url) # 0 THEN cache
    ELSE IF Len(cache) >= MaxCache
    THEN Append(Tail(cache), [url |-> url, content |-> result])
    ELSE Append(cache, [url |-> url, content |-> result])

\* proxy_image from `if content is None` on; `fetched` records whether the
\* wrapped function ran (a GET went out) or lru_cache answered.
ImageAnswer(route, client, url, content, fetched) ==
    [route |-> route, client |-> client, q |-> <<>>,
     status |-> IF content = None THEN 404 ELSE 200, ran |-> TRUE,
     body |-> [url |-> url, content |-> content, fetched |-> fetched,
               content_type |-> IF content = None THEN "" ELSE ContentType(url)]]

\* abort(400, ...) of proxy_image, recorded with the decoded url.
ImageBadRequest(req) ==
    [route |-> req.route, client |-> get_client_ip(req), q |-> <<>>, status |-> 400,
     ran |-> TRUE,
     body |-> [url |-> unquote(req.url), content |-> ImageUrlError(req),
               fetched |-> FALSE, content_type |-> ""]]

U_cover1 == CV_HTTPS \o <<"a/uploads/", "cover1", ".jpg">>
U_cover1_quoted == <<"https://", "comicvine.gamespot.com", "%2F", "a/uploads/", "cover1", ".jpg">>
U_cover2 == CV_HTTP \o <<"a/uploads/", "cover2", ".PNG">>
U_cover3 == CV_HTTPS \o <<"a/uploads/", "cover3", ".webp">>
U_self == <<"https://", "proxy.example", "/", "comic-book-covers/image">>
U_deploy == <<"https://", "trmnl.bettens.dev", "/", "a/uploads/", "x", ".jpg">>
U_loop == CV_HTTPS \o <<"a/uploads/", "x", ".jpg", "?next=", "proxy.example">>
U_other == <<"https://", "evil.example", "/", "a/uploads/", "x", ".jpg">>
U_api == CV_HTTPS \o <<"api/", "issues/">>

ImageUrls ==
    {U_cover1, U_cover1_quoted, U_cover2, U_cover3, U_self, U_deploy, U_loop, U_other,
     U_api, <<>>}

ImageRequests ==
    { [Request("/image", "GET", c, <<>>, <<>>, <<>>, <<>>) EXCEPT !.url = u] :
        c \in {"127.0.0.1", "203.0.113.9"}, u \in ImageUrls }

\* proxy_image over a cache with one fetch in flight per URL: a miss on a URL
\* that another thread is fetching waits for that fetch.
ProxyImageSingleFlight(t) ==
    /\ Serving
    /\ resp = NoResp
    /\ thr[t].pc = "idle"
    /\ \E req \in ImageRequests :
         IF ~Admitted(req)
         THEN resp' = Denied(req) /\ UNCHANGED <<thr, imageCache>>
         ELSE IF ImageUrlError(req) # ""
         THEN resp' = ImageBadRequest(req) /\ UNCHANGED <<thr, imageCache>>
         ELSE LET url == unquote(req.url) IN
              IF CachePos(imageCache, url) # 0
              THEN /\ imageCache' = CacheTouch(imageCache, url)
                   /\ resp' = ImageAnswer(req.route, get_client_ip(req), url,
                                          imageCache[CachePos(imageCache, url)].content,
                                          FALSE)
                   /\ UNCHANGED thr
              ELSE /\ \A u \in Threads : ~(thr[u].pc = "image_get" /\ thr[u].url = url)
                   /\ thr' = [thr EXCEPT ![t] = [IdleThread EXCEPT
                                 !.pc = "image_get", !.url = url,
                                 !.client = get_client_ip(req)]]
                   /\ UNCHANGED <<resp, imageCache>>
    /\ UNCHANGED <<configVars, mainPc, ipVars, seriesVars, rateVars, pageTimeVars>>

\* proxy_image behind require_whitelisted_ip, up to the answer or to the GET
\* of fetch_comic_vine_image on a cache miss.
ProxyImage(t) ==
    /\ Serving
    /\ resp = NoResp
    /\ thr[t].pc = "idle"
    /\ \E req \in ImageRequests :
         IF ~Admitted(req)
         THEN resp' = Denied(req) /\ UNCHANGED <<thr, imageCache>>
         ELSE IF ImageUrlError(req) # ""
         THEN resp' = ImageBadRequest(req) /\ UNCHANGED <<thr, imageCache>>
         ELSE LET url == unquote(req.url) IN
              IF CachePos(imageCache, url) # 0
              THEN /\ imageCache' = CacheTouch(imageCache, url)
                   /\ resp' = ImageAnswer(req.route, get_client_ip(req), url,
                                          imageCache[CachePos(imageCache, url)].content,
                                          FALSE)
                   /\ UNCHANGED thr
              ELSE /\ thr' = [thr EXCEPT ![t] = [IdleThread EXCEPT
                                 !.pc = "image_get", !.url = url,
                                 !.client = get_client_ip(req)]]
                   /\ UNCHANGED <<resp, imageCache>>
    /\ UNCHANGED <<configVars, mainPc, ipVars, seriesVars, rateVars, pageTimeVars>>

\* The GET of fetch_comic_vine_image answers: lru_cache stores what the
\* function returns and proxy_image answers.
ImageFetched(t) ==
    /\ resp = NoResp
    /\ thr[t].pc = "image_get"
    /\ \E reply \in ImageReplies :
         LET content == fetch_comic_vine_image(reply) IN
         /\ imageCache' = CacheStore(imageCache, thr[t].url, content)
         /\ resp' = ImageAnswer("/image", thr[t].client, thr[t].url, content, TRUE)
    /\ thr' = [thr EXCEPT ![t] = IdleThread]
    /\ UNCHANGED <<configVars, mainPc, ipVars, seriesVars, rateVars, pageTimeVars>>

\* The response of a request thread has left.
SentByThread ==
    /\ resp # NoResp
    /\ resp' = NoResp
    /\ UNCHANGED <<configVars, mainPc, ipVars, seriesVars, threadVars, pageTimeVars>>

\* The server is up: the states in which the module body has ended under a
\* WSGI server, the allow-set as the startup fetch left it.
InitServing ==
    /\ ENABLE_IP_WHITELIST \in BOOLEAN
    /\ runMode = "import"
    /\ mainPc = "ready"
    /\ IF ENABLE_IP_WHITELIST
       THEN \E reply \in IpListReplies :
              /\ TRMNL_IPS = fetch_trmnl_ips(reply)
              /\ last_ip_refresh = 1
              /\ ipPc = "sleep"
              /\ ipLast = [by |-> "startup", outcome |-> IpOutcome(reply),
                           before |-> {}]
       ELSE /\ TRMNL_IPS = {}
            /\ last_ip_refresh = 0
            /\ ipPc = "off"
            /\ ipLast = [by |-> "none", outcome |-> "none", before |-> {}]
    /\ ipDelay = 0
    /\ resp = NoResp
    /\ thr = [t \in Threads |-> IdleThread]
    /\ imageCache = <<>>
    /\ now = StartTime
    /\ last_api_request_time = 0
    /\ api_request_lock = 0
    /\ grants = <<>>
    /\ pageCalls = {}
    /\ fetchWakeAt = 0

InitImage ==
    /\ InitServing
    /\ COMIC_VINE_API_KEY = FALSE
    /\ SERIES_DATA = <<>>
    /\ last_series_refresh = 0
    /\ seriesPc = "off"
    /\ fetchPc = "idle"
    /\ all_series = <<>>
    /\ offset = 0
    /\ seriesLast = [by |-> "none", outcome |-> "none"]

NextImage ==
    \/ \E t \in Threads : ProxyImage(t)
    \/ \E t \in Threads : ImageFetched(t)
    \/ SentByThread

SpecImage == InitImage /\ [][NextImage]_vars

(***************************************************************************)
(* The rate limiter and the calls to the metadata API.                     *)
(***************************************************************************)
\* No sleep at all: the limiter without its wait.
NoSleep(current_time, last) == 0

\* sleep_time of rate_limit_api_request, 0 if it does not sleep
SleepTime(current_time, last) ==
    IF current_time - last < Interval THEN Interval - (current_time - last) ELSE 0

\* count = min(int(request.args.get('count', 3)), 10)
MAX_COUNT == 10

Min(a, b) == IF a < b THEN a ELSE b

\* count as the request gave it: no cap.
UncappedCount(count) == count

\* count = min(int(request.args.get('count', 3)), 10)
CappedCount(count) == Min(count, MAX_COUNT)

\* The number of calls get_random_comics makes to /api/issues/: one for a
\* single series, `count` for several (for i in range(count)).
SampleCalls(series_ids, count) ==
    IF Len(series_ids) = 1 THEN 1
    ELSE IF CappedCount(count) < 0 THEN 0 ELSE CappedCount(count)

SampleRequests ==
    { [Request("/comics/random", "GET", c, <<>>, <<>>, <<>>, <<>>)
          EXCEPT !.series_ids = ids, !.count = 2, !.seed = "s1"] :
        c \in {"127.0.0.1", "203.0.113.9"},
        ids \in {<<>>, <<"100">>, <<"100", "7">>} }

\* Requests with and without a seed, from an admitted client.
SeededRequests ==
    { [Request("/comics/random", "GET", "127.0.0.1", <<>>, <<>>, <<>>, <<>>)
          EXCEPT !.series_ids = ids, !.count = n, !.seed = seed] :
        ids \in {<<"100">>, <<"100", "7">>},
        n \in {1, 2},
        seed \in {"", "s1"} }

\* datetime.utcnow().strftime('%Y%m%d%H') at the time of a request
Hours == {"2026110201", "2026110202"}

\* The seed is the current hour whatever the request carries.
AlwaysHourSeed(seed, hour) == hour

\* if not seed: seed = datetime.utcnow().strftime('%Y%m%d%H')
SeedOf(seed, hour) == IF seed = "" THEN hour ELSE seed

\* The first values of rng.randint(0, 100) of random.Random(seed)
RandomDraws(seed) ==
    CASE seed = "s1" -> <<73, 70, 1, 35, 54, 86, 59, 78, 16, 21, 75, 93>>
      [] seed = "2026110201" -> <<38, 13, 43, 20, 24, 84, 56, 91, 75, 87, 37, 37>>
      [] seed = "2026110202" -> <<26, 24, 98, 94, 58, 19, 81, 71, 9, 15, 93, 24>>
      [] OTHER -> <<76, 17, 57, 22, 80, 22, 60, 34, 18, 81, 9, 29>>

\* random.Random(seed): the generator, the number of its draws so far
Random(seed) == [seed |-> seed, k |-> 0]

\* rng.randint(0, 100), the next draw
randint(rng) == RandomDraws(rng.seed)[rng.k + 1]

\* The first series whatever the iteration: no round-robin.
ChooseFirstSeries(series_ids, count, i, rng) ==
    [series_id |-> series_ids[1], offset |-> randint(rng),
     limit |-> IF Len(series_ids) = 1 THEN count ELSE 1]

\* The series, offset and limit of the call of iteration i: one call with
\* limit=count for a single series, else series_cycle[i], the offset moved
\* by i, limit 1.
ChooseQuery(series_ids, count, i, rng) ==
    IF Len(series_ids) = 1
    THEN [series_id |-> series_ids[1], offset |-> randint(rng), limit |-> count]
    ELSE [series_id |-> series_ids[(i % Len(series_ids)) + 1],
          offset |-> randint(rng) + i, limit |-> 1]

\* Requests for up to three issues of one or two series.
CountedRequests ==
    { [Request("/comics/random", "GET", "127.0.0.1", <<>>, <<>>, <<>>, <<>>)
          EXCEPT !.series_ids = ids, !.count = n, !.seed = "s1"] :
        ids \in {<<"100">>, <<"100", "7">>},
        n \in 0..3 }

\* Requests whose count is negative, zero and above the cap, for one, two and
\* three series.
CappedRequests ==
    { [Request("/comics/random", "GET", "127.0.0.1", <<>>, <<>>, <<>>, <<>>)
          EXCEPT !.series_ids = ids, !.count = n, !.seed = "s1"] :
        ids \in {<<"100">>, <<"100", "7">>, <<"100", "7", "42">>},
        n \in {-1, 0, MAX_COUNT + 1} }

\* An answer of get_random_comics, recorded with its seed, series_ids and
\* count and the calls it made.
SampleAnswer(client, status, th) ==
    [route |-> "/comics/random", client |-> client,
     q |-> [seed |-> th.seed, series_ids |-> th.series_ids, count |-> th.count,
            queries |-> th.queries],
     status |-> status,
     ran |-> TRUE, body |-> [success |-> status = 200, calls |-> Len(th.queries)]]

\* What the GET of /api/issues/ can do.
IssuesReplies == {"ok", "http_403", "http_error", "transport", "json"}

\* str(e) of the exception a failed call raises: the text of requests'
\* HTTPError or ConnectionError, or of the JSON decoder.
str_e(reply) ==
    CASE reply = "http_403" ->
           "403 Client Error: Forbidden for url: https://comicvine.gamespot.com/api/issues/"
      [] reply = "http_error" ->
           "500 Server Error: Internal Server Error for url: https://comicvine.gamespot.com/api/issues/"
      [] reply = "transport" ->
           "HTTPSConnectionPool(host='comicvine.gamespot.com', port=443): Max retries exceeded"
      [] OTHER -> "Expecting value: line 1 column 1 (char 0)"

\* An answer that gives what the earlier calls fetched when a call fails.
SamplePartial(th, reply) ==
    [route |-> "/comics/random", client |-> th.client,
     q |-> [upstream |-> reply, series_ids |-> th.series_ids, count |-> th.count,
            queries |-> th.queries],
     status |-> 200, ran |-> TRUE,
     body |-> [success |-> TRUE, calls |-> th.i]]

\* The answer of the except branch of get_random_comics, recorded with what
\* the upstream did and with the calls the request had made.
SampleFailure(th, reply) ==
    [route |-> "/comics/random", client |-> th.client,
     q |-> [upstream |-> reply, series_ids |-> th.series_ids, count |-> th.count,
            queries |-> th.queries],
     status |-> 500, ran |-> TRUE,
     body |-> [error |-> str_e(reply), success |-> FALSE]]

\* get_random_comics behind require_whitelisted_ip, up to its first
\* rate_limit_api_request or to its answer.
SampleBeginOf(t, requests) ==
    /\ Serving
    /\ resp = NoResp
    /\ thr[t].pc = "idle"
    /\ \E req \in requests, hour \in Hours :
         LET count == CappedCount(req.count)
             rng == Random(SeedOf(req.seed, hour))
             th == [IdleThread EXCEPT
                      !.client = get_client_ip(req), !.seed = req.seed,
                      !.series_ids = req.series_ids, !.count = count]
         IN
         IF ~Admitted(req)
         THEN resp' = Denied(req) /\ UNCHANGED thr
         ELSE IF req.series_ids = <<>>
         THEN resp' = SampleAnswer(get_client_ip(req), 400, th) /\ UNCHANGED thr
         ELSE IF SampleCalls(req.series_ids, req.count) = 0
         THEN resp' = SampleAnswer(get_client_ip(req), 200, th) /\ UNCHANGED thr
         ELSE /\ thr' = [thr EXCEPT ![t] = [th EXCEPT
                            !.pc = "acquire",
                            !.n = SampleCalls(req.series_ids, req.count),
                            !.rng = [rng EXCEPT !.k = 1],
                            !.queries = <<ChooseQuery(req.series_ids, count, 0, rng)>>]]
              /\ UNCHANGED resp
    /\ UNCHANGED <<configVars, mainPc, ipVars, seriesVars, imageCache, rateVars,
                   pageTimeVars>>

SampleBegin(t) == SampleBeginOf(t, SampleRequests)

\* get_random_comics for requests with and without a seed.
SampleBeginSeeded(t) == SampleBeginOf(t, SeededRequests)

\* get_random_comics on the first request thread, for requests of up to
\* three issues.
SampleBeginCounted == SampleBeginOf(1, CountedRequests)

\* get_random_comics on the first request thread, for requests with a count
\* around and beyond the cap.
SampleBeginCapped == SampleBeginOf(1, CappedRequests)

\* rate_limit_api_request: `with api_request_lock` is entered, the time is
\* read and the sleep, if any, begins.
LimiterAcquire(t) ==
    /\ resp = NoResp
    /\ thr[t].pc = "acquire"
    /\ api_request_lock = 0
    /\ api_request_lock' = t
    /\ thr' = [thr EXCEPT ![t].pc = "locked",
                          ![t].wake = now + SleepTime(now, last_api_request_time)]
    /\ UNCHANGED <<configVars, mainPc, ipVars, seriesVars, imageCache, now,
                   last_api_request_time, grants, pageTimeVars, resp>>

\* The limiter's lock is kept while the GET of /api/issues/ is out.
LimiterRecordKeepsLock(t) ==
    /\ resp = NoResp
    /\ thr[t].pc = "locked"
    /\ now >= thr[t].wake
    /\ last_api_request_time' = now
    /\ grants' = Append(grants, now)
    /\ thr' = [thr EXCEPT ![t].pc = "issues_get"]
    /\ UNCHANGED <<configVars, mainPc, ipVars, seriesVars, imageCache, now,
                   api_request_lock, pageTimeVars, resp>>

\* rate_limit_api_request: the sleep is over (time.sleep returns at its end
\* or later), last_api_request_time = time.time(), the lock is left and the
\* GET of /api/issues/ goes out.
LimiterRecord(t) ==
    /\ resp = NoResp
    /\ thr[t].pc = "locked"
    /\ now >= thr[t].wake
    /\ last_api_request_time' = now
    /\ grants' = Append(grants, now)
    /\ api_request_lock' = 0
    /\ thr' = [thr EXCEPT ![t].pc = "issues_get"]
    /\ UNCHANGED <<configVars, mainPc, ipVars, seriesVars, imageCache, now,
                   pageTimeVars, resp>>

\* The GET of /api/issues/ answers: the loop goes on, or get_random_comics
\* answers (500 from its except branch on any failure).
IssuesReply(t) ==
    /\ resp = NoResp
    /\ thr[t].pc = "issues_get"
    /\ \E reply \in IssuesReplies :
         IF reply # "ok"
         THEN /\ resp' = SampleFailure(thr[t], reply)
              /\ thr' = [thr EXCEPT ![t] = IdleThread]
         ELSE IF thr[t].i + 1 < thr[t].n
         THEN /\ thr' = [thr EXCEPT
                           ![t].pc = "acquire",
                           ![t].i = thr[t].i + 1,
                           ![t].rng.k = thr[t].rng.k + 1,
                           ![t].queries =
                               Append(thr[t].queries,
                                      ChooseQuery(thr[t].series_ids, thr[t].count,
                                                  thr[t].i + 1, thr[t].rng))]
              /\ UNCHANGED resp
         ELSE /\ resp' = SampleAnswer(thr[t].client, 200, thr[t])
              /\ thr' = [thr EXCEPT ![t] = IdleThread]
    /\ UNCHANGED <<configVars, mainPc, ipVars, seriesVars, imageCache, rateVars,
                   pageTimeVars>>

\* Time passes, up to a last tick.
TickTo(last) ==
    /\ resp = NoResp
    /\ now < last
    /\ now' = now + 1
    /\ UNCHANGED <<configVars, mainPc, ipVars, seriesVars, thr, imageCache,
                   last_api_request_time, api_request_lock, grants, pageTimeVars, resp>>

Tick == TickTo(MaxClock)

TickLong == TickTo(LongClock)

TickCap == TickTo(CapClock)

\* The replies to a page request that differ in what the loop does next: a
\* full page, an empty page, a failure.
TimedPageReplies ==
    { [kind |-> "ok",
       results |-> [k \in 1..PageLimit |-> Volume(100, S_AlphaForce, 12, FALSE, 1990, S_Marvel)]],
      [kind |-> "ok", results |-> <<>>],
      [kind |-> "transport", results |-> <<>>] }

\* One pass of the while loop of fetch_popular_series on the clock: the GET
\* of /api/volumes/ goes out now, without rate_limit_api_request; if the
\* loop goes on, asyncio.sleep(1) begins.
FetchPageTimed ==
    /\ PageStep(TimedPageReplies)
    /\ pageCalls' = pageCalls \cup {now}
    /\ fetchWakeAt' = now + Interval

\* asyncio.sleep(1) returns, at its end or later.
FetchWakeTimed ==
    /\ now >= fetchWakeAt
    /\ WakeStep
    /\ UNCHANGED pageTimeVars

\* series_refresh_worker wakes after its 24 hours.
SeriesWorkerWakeTimed ==
    /\ pageCalls = {}
    /\ SeriesWorkerWake

\* The server is up with an API key: the startup fetch of the catalog has
\* ended (here with an empty first page) a day ago; access control is on and
\* the IP-list service listed no address, so the allow-set is the loopback
\* addresses.
InitRate ==
    /\ InitServing
    /\ ENABLE_IP_WHITELIST = TRUE
    /\ ipLast.outcome = "ok"
    /\ TRMNL_IPS = Range(LOCALHOST_IPS)
    /\ COMIC_VINE_API_KEY = TRUE
    /\ SERIES_DATA = <<>>
    /\ last_series_refresh = 1
    /\ seriesPc = "sleep"
    /\ fetchPc = "idle"
    /\ all_series = <<>>
    /\ offset = 0
    /\ seriesLast = [by |-> "startup", outcome |-> "ok"]

NextRate ==
    \/ \E t \in Threads : SampleBegin(t)
    \/ \E t \in Threads : LimiterAcquire(t)
    \/ \E t \in Threads : LimiterRecord(t)
    \/ \E t \in Threads : IssuesReply(t)
    \/ SentByThread
    \/ Tick
    \/ SeriesWorkerWakeTimed
    \/ FetchPageTimed
    \/ FetchWakeTimed

SpecRate == InitRate /\ [][NextRate]_vars

\* The sample route alone, for requests with and without a seed.
NextSample ==
    \/ \E t \in Threads : SampleBeginSeeded(t)
    \/ \E t \in Threads : LimiterAcquire(t)
    \/ \E t \in Threads : LimiterRecord(t)
    \/ \E t \in Threads : IssuesReply(t)
    \/ SentByThread
    \/ Tick

SpecSample == InitRate /\ [][NextSample]_vars

\* One request at a time, followed through all of its upstream calls.
NextCounted ==
    \/ SampleBeginCounted
    \/ LimiterAcquire(1)
    \/ LimiterRecord(1)
    \/ IssuesReply(1)
    \/ SentByThread
    \/ TickLong

SpecCounted == InitRate /\ [][NextCounted]_vars

\* One request at a time with a count around and beyond the cap, on a clock
\* long enough for ten spaced calls.
NextCapped ==
    \/ SampleBeginCapped
    \/ LimiterAcquire(1)
    \/ LimiterRecord(1)
    \/ IssuesReply(1)
    \/ SentByThread
    \/ TickCap

SpecCapped == InitRate /\ [][NextCapped]_vars

(***************************************************************************)
(* The rewrite of the image urls in the answer of get_random_comics.       *)
(***************************************************************************)
\* urllib.parse.quote of one piece, safe='/': ':', '?', '=' and '%' become
\* percent escapes, letters, digits, '.', '-', '_' and '/' stay.
QuotePiece(piece) ==
    CASE piece = "https://" -> "https%3A//"
      [] piece = "http://" -> "http%3A//"
      [] piece = "?url=" -> "%3Furl%3D"
      [] piece = "?ref=" -> "%3Fref%3D"
      [] piece = "https%3A//" -> "https%253A//"
      [] piece = "http%3A//" -> "http%253A//"
      [] OTHER -> piece

\* urllib.parse.quote
quote(url) == [k \in 1..Len(url) |-> QuotePiece(url[k])]

\* f"{scheme}://{host}/comic-book-covers/image?url={quote(original_url)}"
ProxyUrl(scheme, host, original_url) ==
    <<(IF scheme = "https" THEN "https://" ELSE "http://"), host, "/",
      "comic-book-covers/image", "?url=">> \o quote(original_url)

\* The body of `for key in [...]` for one key: the value of the key after
\* it (<<>> is a key that is missing, null or empty).
RewriteValue(scheme, host, value) ==
    IF value = <<>> THEN value
    ELSE IF Within(<<"comicvine.gamespot.com">>, value)
    THEN ProxyUrl(scheme, host, value)
    ELSE value

ImageKeys == {"small_url", "medium_url", "screen_url", "original_url"}

\* The body of `for issue in all_issues` for one issue (image <<>> is an
\* image that is missing or null).
RewriteIssue(scheme, host, issue) ==
    IF issue.image = <<>> THEN issue
    ELSE [issue EXCEPT !.image =
            [key \in ImageKeys |-> RewriteValue(scheme, host, issue.image[key])]]

\* for issue in all_issues: ...
RewriteAll(scheme, host, all_issues) ==
    [k \in 1..Len(all_issues) |-> RewriteIssue(scheme, host, all_issues[k])]

\* Urls the upstream may put into an issue: an asset of its own, a url of
\* another host, one of another host that names the upstream's domain in its
\* query, one of this gateway without and one with the upstream's domain in
\* it (the image route with an asset as its parameter).
U_mention == <<"https://", "evil.example", "/", "?ref=", "comicvine.gamespot.com">>
U_proxied == <<"https://", "proxy.example", "/", "comic-book-covers/image", "?url=">>
             \o <<"https%3A//", "comicvine.gamespot.com", "/", "a/uploads/", "cover1", ".jpg">>

IssueUrls == {<<>>, U_cover1, U_cover2, U_other, U_mention, U_self, U_proxied}

Issues ==
    { [name |-> "Issue", image |-> <<>>] }
    \cup { [name |-> "Issue",
            image |-> [small_url |-> a, medium_url |-> b,
                       screen_url |-> <<>>, original_url |-> c]] :
            a \in IssueUrls, b \in {<<>>, U_cover2}, c \in IssueUrls }

\* get_random_comics from the rewrite on, for the issues its calls have
\* collected: the answer, recorded with the issues as they came.
SampleRewrite ==
    /\ Serving
    /\ resp = NoResp
    /\ \E client \in TRMNL_IPS, scheme \in {"http", "https"},
          all_issues_in \in SeqsUpTo(Issues, 1) :
         resp' = [route |-> "/comics/random", client |-> client,
                  q |-> [scheme |-> scheme, host |-> GatewayHost,
                         all_issues |-> all_issues_in],
                  status |-> 200, ran |-> TRUE,
                  body |-> [success |-> TRUE, count |-> Len(all_issues_in),
                            results |-> RewriteAll(scheme, GatewayHost, all_issues_in)]]
    /\ UNCHANGED <<configVars, threadVars, pageTimeVars, mainPc, ipVars, seriesVars>>

NextRewrite == SampleRewrite \/ Sent

SpecRewrite == InitRate /\ [][NextRewrite]_vars

(***************************************************************************)
(* Requests that come through proxies.                                     *)
(***************************************************************************)
ProxiedRequests ==
    { Request("/health", "GET", remote, cf, xff, xri, S_Empty) :
        remote \in {"127.0.0.1", "203.0.113.9"},
        cf \in {<<>>, <<"">>, <<"10.0.0.1">>},
        xff \in {<<>>, <<"">>, <<"10.0.0.3 ", " 10.0.0.2">>, <<"", "10.0.0.2">>},
        xri \in {<<>>, <<"">>, <<"10.0.0.4">>} }

\* health for a request with proxy headers; the answer is recorded with the
\* headers and the peer address of its request.
HealthProxied ==
    \E req \in ProxiedRequests :
        Answer([health(req) EXCEPT
                  !.q = [cf |-> req.cf, xff |-> req.xff, xri |-> req.xri,
                         remote_addr |-> req.remote_addr]])

NextHeaders == HealthProxied \/ Sent

SpecHeaders == InitImage /\ [][NextHeaders]_vars

Next ==
    \/ LoadModule
    \/ AppRunReturns
    \/ StartupIps
    \/ IpWorkerWake
    \/ IpWorkerRefresh
    \/ FetchPage
    \/ FetchWake
    \/ SeriesWorkerWake
    \/ Index
    \/ DebugSeries
    \/ Health
    \/ SearchSeries
    \/ Sent

Spec == Init /\ [][Next]_vars

\* The replies to a page request of a refresh that stores nothing: a full
\* page of volumes without an id, which the loop skips, an empty page, a
\* failure.
SkippedPageReplies ==
    { [kind |-> "ok",
       results |-> [k \in 1..PageLimit |-> Volume(0, S_zzz, 5, FALSE, 1990, S_Marvel)]],
      [kind |-> "ok", results |-> <<>>],
      [kind |-> "transport", results |-> <<>>] }

\* One pass of the fetch loop for these replies, the clock left out.
FetchPageOutcomes == PageStep(SkippedPageReplies) /\ UNCHANGED pageTimeVars

\* The replies to a page request whose volumes the loop keeps: any page of
\* valid volumes up to the page size, or a failure.
ValidPageReplies ==
    [kind : {"ok"}, results : SeqsUpTo(ValidVolumes, PageLimit)]
    \cup [kind : {"transport"}, results : {<<>>}]

\* One pass of the fetch loop for these replies, the clock left out.
FetchPageValid == PageStep(ValidPageReplies) /\ UNCHANGED pageTimeVars

\* The catalog refreshes of a server that is up, with the debug route that
\* shows the catalog.
NextFetch ==
    \/ SeriesWorkerWake
    \/ FetchPageValid
    \/ FetchWake
    \/ DebugSeries
    \/ Sent

SpecFetch == InitRate /\ [][NextFetch]_vars

\* The two refresh workers of a server that is up, with a handler that
\* reads what they refresh.
NextWorkers ==
    \/ IpWorkerWake
    \/ IpWorkerRefresh
    \/ SeriesWorkerWake
    \/ FetchPageOutcomes
    \/ FetchWake
    \/ Health
    \/ Sent

\* time.sleep and asyncio.sleep return and every GET ends (each has a
\* timeout): a worker's step is taken if it can be taken again and again,
\* requests in between notwithstanding; a response that is ready is sent.
WorkersFairness ==
    /\ SF_vars(IpWorkerWake)
    /\ SF_vars(IpWorkerRefresh)
    /\ SF_vars(SeriesWorkerWake)
    /\ SF_vars(FetchPageOutcomes)
    /\ SF_vars(FetchWake)
    /\ WF_vars(Sent)

SpecWorkers == InitRate /\ [][NextWorkers]_vars /\ WorkersFairness

(***************************************************************************)
(* Properties of the catalog and allow-list refreshes.                     *)
(***************************************************************************)
LoopbackOnly == {"127.0.0.1", "::1"}

\* C1: a catalog refresh (at startup or periodic) whose page fetch fails ends
\* with the catalog it started with: the step in which fetch_popular_series
\* returns after a failure leaves SERIES_DATA as it was.
C1_FailedRefreshKeepsCatalog ==
    [][(fetchPc # "idle" /\ fetchPc' = "idle" /\ seriesLast'.outcome = "failed")
        => SERIES_DATA' = SERIES_DATA]_vars

\* C2: the image cache never holds an entry for a failed fetch: no URL is
\* cached with the None that fetch_comic_vine_image returns on a transport
\* error or a non-2xx status.
C2_FailedFetchNotCached ==
    \A k \in 1..Len(imageCache) : imageCache[k].content # None

\* C3: after an allow-list refresh whose fetch failed, the allow-set is
\* exactly the loopback-only set.
C3_FailedRefreshLoopbackOnly ==
    ipLast.outcome = "failed" => TRMNL_IPS = LoopbackOnly

\* C3 happens: a periodic refresh failed when the allow-set held more than
\* the loopback addresses.
C3_Witness ==
    /\ ipLast.by = "worker"
    /\ ipLast.outcome = "failed"
    /\ ipLast.before # LoopbackOnly
    /\ "10.0.0.1" \in ipLast.before
    /\ TRMNL_IPS = LoopbackOnly

\* C4: whatever the number of threads inside rate_limit_api_request, the
\* recorded last-call timestamps are pairwise at least the interval apart.
C4_GrantsSpaced ==
    \A i, j \in DOMAIN grants : i < j => grants[j] - grants[i] >= Interval

\* Two threads have each made their single call through the limiter, the
\* second having slept until exactly the interval after the first.
C4_Witness ==
    /\ Len(grants) = 2
    /\ grants[2] - grants[1] = Interval
    /\ \A t \in {1, 2} : thr[t].pc = "issues_get" /\ thr[t].n = 1

\* C5: a request is answered only after the startup refreshes that the
\* configuration asks for have stored the allow-set and the catalog.
C5_RefreshedBeforeFirstRequest ==
    resp.route # "none" =>
        /\ ENABLE_IP_WHITELIST => last_ip_refresh # 0
        /\ COMIC_VINE_API_KEY => last_series_refresh # 0

\* C6: with access control enabled, whenever the gateway can handle a request
\* the allow-set contains both loopback addresses.
C6_LoopbackAlwaysAllowed ==
    (ENABLE_IP_WHITELIST /\ Serving) => LoopbackOnly \subseteq TRMNL_IPS

\* C7: with access control enabled (and the allow-set loaded at startup), a
\* request to a route other than health and catalog search from an address
\* outside the allow-set is answered 403 and the handler body is not run.
C7_OtherRoutesGated ==
    ( /\ ENABLE_IP_WHITELIST
      /\ last_ip_refresh # 0
      /\ resp.route \notin {"none", "/health", "/series/search"}
      /\ resp.client \notin TRMNL_IPS )
    => (resp.status = 403 /\ ~resp.ran)

\* C8: the attempt the refresh worker makes after a failed periodic refresh
\* comes after the backoff period of 3600 seconds.
C8_FailedRefreshRetriedAfterBackoff ==
    (ipPc = "fetch" /\ ipLast.by = "worker" /\ ipLast.outcome = "failed")
    => ipDelay = BACKOFF_SECONDS

\* C9: every page request of a catalog refresh and every call through the
\* limiter are at least the interval apart.
C9_PagesAndGrantsSpaced ==
    \A p \in pageCalls : \A k \in DOMAIN grants :
        p - grants[k] >= Interval \/ grants[k] - p >= Interval

(***************************************************************************)
(* Properties of catalog search.                                           *)
(***************************************************************************)
\* sub in s
Contains(s, sub) ==
    \E i \in 0..(Len(s) - Len(sub)) : SubSeq(s, i + 1, i + Len(sub)) = sub

\* The series matches the search text, case-insensitively, in its name or
\* its publisher name.
Matches(series, q) ==
    \/ Contains(Lower(series.name), Lower(q))
    \/ Contains(Lower(series.publisher_name), Lower(q))

Matching(list, q) == SelectSeq(list, LAMBDA series : Matches(series, q))

\* C10: a search answers the catalog entries whose name or publisher name
\* contains the search text, case-insensitively, in catalog order, truncated
\* to the limit.
C10_SearchFiltersByQuery ==
    (resp.route = "/series/search" /\ resp.status = 200)
    => resp.body = Formatted(Take(Matching(SERIES_DATA, resp.q), SearchLimit))

(***************************************************************************)
(* The order of the catalog and of the search answer.                      *)
(***************************************************************************)
\* No entry stands before an entry whose lower-cased name is smaller.
NameOrdered(list) ==
    \A i, j \in 1..Len(list) :
        i < j => ~StrLess(Lower(list[j].name), Lower(list[i].name))

UpstreamAsset(url) ==
    /\ Len(url) >= 3
    /\ url[1] \in {"https://", "http://"}
    /\ url[2] = "comicvine.gamespot.com"
    /\ url[3] = "/"
    /\ \E k \in 1..(Len(url) - 1) : url[k] = "/" /\ url[k + 1] = "a/uploads/"

\* The step sends the answer of the image route to a request that passed
\* access control.
ImageAnswered == resp = NoResp /\ resp'.route = "/image" /\ resp'.ran

\* The step starts no GET and leaves the image cache alone.
NoFetchNoCacheChange == thr' = thr /\ imageCache' = imageCache

\* C12: a request for a url that does not start with the upstream asset
\* domain or does not contain the CDN path is answered 400, in a step that
\* starts no outbound fetch and leaves the image cache unchanged; no such
\* url is ever being fetched or cached.
C12_ForeignUrlRejected ==
    [][/\ (ImageAnswered /\ ~UpstreamAsset(resp'.body.url))
          => (resp'.status = 400 /\ NoFetchNoCacheChange)
       /\ \A t \in Threads : thr'[t].pc = "image_get" => UpstreamAsset(thr'[t].url)
       /\ \A k \in 1..Len(imageCache') : UpstreamAsset(imageCache'[k].url)]_vars

\* A url of the upstream's API, outside the CDN path, was rejected while the
\* cache held an image.
C12_Witness ==
    /\ resp.route = "/image" /\ resp.status = 400
    /\ resp.body.url = U_api
    /\ imageCache # <<>>

\* The host of the url is the gateway's own: the host of the request or the
\* fixed deployment host.
SelfHosted(url) ==
    Len(url) >= 2 /\ url[2] \in {GatewayHost, "trmnl.bettens.dev"}

\* C13: a request for a url on the gateway's own host is answered 400 in a
\* step that starts no outbound fetch, and no thread ever fetches such a
\* url.
C13_NoProxyLoop ==
    [][/\ (ImageAnswered /\ SelfHosted(resp'.body.url))
          => (resp'.status = 400 /\ NoFetchNoCacheChange)
       /\ \A t \in Threads : thr'[t].pc = "image_get" => ~SelfHosted(thr'[t].url)]_vars

\* A url on the host of the request was rejected as self-referencing.
C13_Witness ==
    /\ resp.route = "/image" /\ resp.status = 400
    /\ resp.body.url = U_self
    /\ resp.body.content = "Cannot proxy images from this server"

\* C14: the bytes a successful fetch answered with are stored under the
\* url; while the entry is in the cache, a request for the url starts no
\* outbound fetch and is answered with the stored bytes.
C14_SecondRequestServedFromCache ==
    [][/\ ( /\ ImageAnswered /\ resp'.status = 200 /\ resp'.body.fetched
            /\ \A k \in 1..Len(imageCache) : imageCache[k].url # resp'.body.url )
          => \E k \in 1..Len(imageCache') :
                imageCache'[k] = [url |-> resp'.body.url,
                                  content |-> resp'.body.content]
       /\ \A t \in Threads : \A k \in 1..Len(imageCache) :
             (thr[t].pc = "idle" /\ thr'[t].pc = "image_get")
             => thr'[t].url # imageCache[k].url
       /\ \A k \in 1..Len(imageCache) :
             ( /\ ImageAnswered /\ resp'.status # 400 /\ ~resp'.body.fetched
               /\ resp'.body.url = imageCache[k].url /\ imageCache[k].content # None )
             => /\ resp'.status = 200
                /\ resp'.body.content = imageCache[k].content
                /\ thr' = thr]_vars

\* A request was answered from the cache with the bytes an earlier fetch
\* had stored, the cache holding another image besides.
C14_Witness ==
    /\ resp.route = "/image" /\ resp.status = 200 /\ ~resp.body.fetched
    /\ resp.body.url = U_cover1
    /\ resp.body.content = "JPEG-2"
    /\ Len(imageCache) = 2
    /\ \A t \in Threads : thr[t].pc = "idle"

(***************************************************************************)
(* Properties of access control.                                           *)
(***************************************************************************)
\* C15: with access control enabled, a request to the gated image route
\* from an address outside the allow-set is answered 403 with the JSON body
\* naming the denial, in a step that starts no outbound call, leaves the
\* rate limiter and the image cache as they were; and no thread ever works
\* for such an address.
C15_DeniedRequestAnswered403 ==
    [][/\ ( /\ ENABLE_IP_WHITELIST /\ resp = NoResp /\ resp'.route = "/image"
            /\ resp'.client \notin TRMNL_IPS )
          => /\ resp'.status = 403
             /\ resp'.body.error = "Access denied"
             /\ resp'.body.message # ""
             /\ thr' = thr
             /\ imageCache' = imageCache
             /\ last_api_request_time' = last_api_request_time
             /\ api_request_lock' = api_request_lock
             /\ grants' = grants
       /\ \A t \in Threads :
             (ENABLE_IP_WHITELIST /\ thr'[t].pc # "idle")
             => thr'[t].client \in TRMNL_IPS]_vars

\* A request from outside the allow-set was answered 403 while the cache
\* held an image and another request was being served.
C15_Witness ==
    /\ ENABLE_IP_WHITELIST
    /\ resp.route = "/image" /\ resp.status = 403
    /\ resp.client = "203.0.113.9" /\ resp.client \notin TRMNL_IPS
    /\ resp.body = AccessDenied
    /\ imageCache # <<>>
    /\ \E t \in Threads : thr[t].pc = "image_get"

\* C16 as stated: the address is taken from the first of CF-Connecting-IP,
\* X-Forwarded-For (its first hop) and X-Real-IP that is present, from the
\* transport peer if none is.
C16_PrecedenceByPresence ==
    resp.route = "/health" =>
        resp.body.your_ip =
            (IF resp.q.cf # <<>> THEN strip(resp.q.cf[1])
             ELSE IF resp.q.xff # <<>> THEN strip(resp.q.xff[1])
             ELSE IF resp.q.xri # <<>> THEN strip(resp.q.xri[1])
             ELSE resp.q.remote_addr)

\* The header carries an address: it is present and its value is not empty.
HasValue(header) == header # <<>> /\ header[1] # ""

\* C16, amended: the address is taken from the first of CF-Connecting-IP,
\* X-Forwarded-For (its first hop) and X-Real-IP that is present with a
\* value that is not empty, from the transport peer if none is.
C16_PrecedenceByValue ==
    resp.route = "/health" =>
        LET h == resp.q
            xffValue == h.xff # <<>> /\ (Len(h.xff) > 1 \/ h.xff[1] # "")
        IN /\ HasValue(h.cf) => resp.body.your_ip = strip(h.cf[1])
           /\ (~HasValue(h.cf) /\ xffValue) => resp.body.your_ip = strip(h.xff[1])
           /\ (~HasValue(h.cf) /\ ~xffValue /\ HasValue(h.xri))
              => resp.body.your_ip = strip(h.xri[1])
           /\ (~HasValue(h.cf) /\ ~xffValue /\ ~HasValue(h.xri))
              => resp.body.your_ip = h.remote_addr

\* A request with an empty CF-Connecting-IP and the two other headers set
\* was given the first hop of X-Forwarded-For.
C16_Witness ==
    /\ resp.route = "/health"
    /\ resp.q.cf = <<"">>
    /\ resp.q.xff = <<"10.0.0.3 ", " 10.0.0.2">>
    /\ resp.q.xri = <<"10.0.0.4">>
    /\ resp.body.your_ip = "10.0.0.3"

(***************************************************************************)
(* Properties of the rewrite of image urls.                                *)
(***************************************************************************)
\* The url is one of the gateway's image route carrying a url as parameter.
AlreadyProxied(url, host) ==
    /\ Len(url) >= 5
    /\ url[2] = host /\ url[4] = "comic-book-covers/image" /\ url[5] = "?url="

\* The answer of get_random_comics is one with rewritten results.
Rewritten == resp.route = "/comics/random" /\ resp.status = 200 /\ resp.q # <<>>

\* C17: the rewrite leaves unchanged every image url that is already a url
\* of the gateway's image route.
C17_RewriteIdempotent ==
    Rewritten =>
        \A k \in 1..Len(resp.q.all_issues) :
            resp.q.all_issues[k].image # <<>> =>
                \A key \in ImageKeys :
                    AlreadyProxied(resp.q.all_issues[k].image[key], resp.q.host)
                    => resp.body.results[k].image[key] = resp.q.all_issues[k].image[key]

\* C18: the rewrite leaves unchanged every image url whose host is not the
\* upstream's asset domain, the gateway's own host among them, and replaces
\* a url on the asset domain by the url of the gateway's image route with
\* the original url as its parameter.
C18_RewriteOnlyUpstreamHost ==
    Rewritten =>
        \A k \in 1..Len(resp.q.all_issues) :
            resp.q.all_issues[k].image # <<>> =>
                \A key \in ImageKeys :
                    LET before == resp.q.all_issues[k].image[key]
                        after == resp.body.results[k].image[key]
                    IN IF before # <<>> /\ before[2] = "comicvine.gamespot.com"
                       THEN after = ProxyUrl(resp.q.scheme, resp.q.host, before)
                       ELSE after = before

(***************************************************************************)
(* Properties of the sample route.                                         *)
(***************************************************************************)
\* C19: when the metadata API answers a call with 403, the answer of the
\* gateway does not carry the text of the upstream error and differs from
\* the answer to any other upstream failure by its status or by a
\* diagnostic in its body.
C19_Upstream403Diagnosed ==
    ( /\ resp.route = "/comics/random"
      /\ "upstream" \in DOMAIN resp.q
      /\ resp.q.upstream = "http_403" )
    => /\ resp.body.error # str_e("http_403")
       /\ (resp.status # 500 \/ "diagnostic" \in DOMAIN resp.body)


\* The calls of get_random_comics in view: the ones under way and the one
\* just answered after its upstream calls.
SampleCallsInView ==
    { [seed |-> thr[t].seed, series_ids |-> thr[t].series_ids,
       count |-> thr[t].count, queries |-> thr[t].queries] :
        t \in { u \in Threads : thr[u].pc # "idle" /\ thr[u].queries # <<>> } }
    \cup (IF resp # NoResp /\ resp.route = "/comics/random" /\ resp.status = 200
          THEN {resp.q}
          ELSE {})

\* One sequence of upstream queries goes as far as the other and agrees
\* with it that far.
SameQueriesSoFar(a, b) ==
    \A k \in 1..Min(Len(a), Len(b)) : a[k] = b[k]

\* C20: two calls of the sample route that are given the same seed, the
\* same count and the same list of series ids choose the same sequence of
\* (series, offset, limit) upstream queries, whatever the hour of either
\* call, whatever the limiter made them wait and whatever other call ran
\* in between.
C20_SampleDeterministic ==
    \A a, b \in SampleCallsInView :
        (a.seed # "" /\ a.seed = b.seed /\ a.series_ids = b.series_ids
            /\ a.count = b.count)
        => SameQueriesSoFar(a.queries, b.queries)

\* Two calls with seed "s1" for the same two series and two issues, begun
\* at different times around each other's upstream calls, have both chosen
\* their two queries.
C20_Witness ==
    \E t, u \in Threads :
        /\ t # u
        /\ thr[t].seed = "s1" /\ thr[u].seed = "s1"
        /\ thr[t].series_ids = <<"100", "7">>
        /\ thr[u].series_ids = <<"100", "7">>
        /\ thr[t].count = 2 /\ thr[u].count = 2
        /\ Len(thr[t].queries) = 2
        /\ thr[u].queries = thr[t].queries
        /\ thr[t].queries[1].series_id # thr[t].queries[2].series_id

\* The queries a sample call has chosen so far follow the strategy of its
\* series list: one query of `count` issues for a single series, else one
\* query of one issue per iteration, the k-th for the series at place
\* (k - 1) mod the number of series; `done` tells that the call was answered
\* and so made all of its queries.
QueriesFollowStrategy(series_ids, count, queries, done) ==
    IF Len(series_ids) = 1
    THEN /\ Len(queries) <= 1
         /\ done => Len(queries) = 1
         /\ \A k \in 1..Len(queries) :
              queries[k].series_id = series_ids[1] /\ queries[k].limit = count
    ELSE /\ Len(queries) <= count
         /\ done => Len(queries) = count
         /\ \A k \in 1..Len(queries) :
              /\ queries[k].series_id = series_ids[((k - 1) % Len(series_ids)) + 1]
              /\ queries[k].limit = 1

\* C21: a sample request for one series makes exactly one upstream query,
\* for `count` issues of it; a request for k >= 2 series and c issues makes
\* exactly c queries of one issue each, the i-th (from 0) for
\* series_ids[i mod k], so that the list is cycled when c > k.
C21_OneQueryOrRoundRobin ==
    /\ \A t \in Threads :
         thr[t].pc # "idle" =>
           QueriesFollowStrategy(thr[t].series_ids, thr[t].count, thr[t].queries, FALSE)
    /\ (resp # NoResp /\ resp.route = "/comics/random" /\ resp.status = 200) =>
           QueriesFollowStrategy(resp.q.series_ids, resp.q.count, resp.q.queries, TRUE)

\* A request for three issues of two series was answered after three
\* queries, the third for the first series again.
C21_Witness ==
    /\ resp # NoResp
    /\ resp.route = "/comics/random"
    /\ resp.status = 200
    /\ resp.q.series_ids = <<"100", "7">>
    /\ resp.q.count = 3
    /\ Len(resp.q.queries) = 3
    /\ resp.q.queries[2].series_id = "7"
    /\ resp.q.queries[3].series_id = "100"

\* A step in which the health route answers.
HealthAnswers == resp = NoResp /\ resp' # NoResp /\ resp'.route = "/health"

\* C22: the health route is a pure read: whatever the state and the client
\* address, allowed or not, it is answered 200 by its handler, and the step
\* leaves the allow-set, the catalog, both last-refresh timestamps, the
\* image cache and the limiter's timestamp as they were and starts no
\* outbound call (no worker, fetch or request thread moves, no call time is
\* recorded).
C22_HealthPureRead ==
    [][HealthAnswers =>
         /\ resp'.status = 200
         /\ resp'.ran
         /\ UNCHANGED <<TRMNL_IPS, SERIES_DATA, last_ip_refresh, last_series_refresh,
                        imageCache, last_api_request_time>>
         /\ UNCHANGED <<ipPc, seriesPc, fetchPc, thr, grants, pageCalls,
                        api_request_lock>>]_vars

\* With access control enabled and the allow-set loaded, the health route
\* has answered a client that is not in the allow-set, reporting it so.
C22_Witness ==
    /\ resp # NoResp
    /\ resp.route = "/health"
    /\ resp.status = 200
    /\ ENABLE_IP_WHITELIST
    /\ last_ip_refresh # 0
    /\ resp.client \notin TRMNL_IPS
    /\ resp.body.whitelisted = FALSE

\* The request threads that are in the middle of an outbound call: the GET
\* of /api/issues/ or the fetch of an image.
InOutboundCall == { t \in Threads : thr[t].pc \in {"issues_get", "image_get"} }

FetchesAlongside(t, u) ==
    /\ ProxyImage(t)
    /\ thr'[t].pc = "image_get"
    /\ thr'[t].url = thr[u].url

\* Thread t's GET returns and t answers the caller it serves, for the URL it
\* fetched.
AnswersOwnCaller(t) ==
    /\ ImageFetched(t)
    /\ resp'.client = thr[t].client
    /\ resp'.body.url = thr[t].url
    /\ resp'.body.fetched

\* C24: the image cache does not keep concurrent misses on one URL down to
\* one fetch: while a thread's fetch of a URL is out (so the URL is not yet
\* stored), any idle thread that gets a request for the same URL sends a GET
\* of its own, and each of the two answers its caller when its GET returns.
C24_ConcurrentMissesBothFetch ==
    \A t, u \in Threads :
        /\ ( /\ resp = NoResp
             /\ thr[u].pc = "image_get"
             /\ CachePos(imageCache, thr[u].url) = 0
             /\ thr[t].pc = "idle" )
           => ENABLED FetchesAlongside(t, u)
        /\ ( /\ resp = NoResp
             /\ t # u
             /\ thr[t].pc = "image_get"
             /\ thr[u].pc = "image_get"
             /\ thr[t].url = thr[u].url )
           => ENABLED AnswersOwnCaller(t)

\* Two fetches of one URL have both returned: the thread that came second
\* answers its caller with the bytes its own GET returned while the cache
\* holds the bytes the first one stored for the same URL.
C24_Witness ==
    /\ resp # NoResp
    /\ resp.route = "/image"
    /\ resp.status = 200
    /\ resp.body.fetched
    /\ CachePos(imageCache, resp.body.url) # 0
    /\ imageCache[CachePos(imageCache, resp.body.url)].content # resp.body.content
    /\ imageCache[CachePos(imageCache, resp.body.url)].content # None

\* The URLs the image cache holds.
CachedUrls(cache) == { cache[k].url : k \in 1..Len(cache) }

\* A step in which the image route answers from the cache.
ServedFromCache ==
    /\ resp = NoResp
    /\ resp' # NoResp
    /\ resp'.route = "/image"
    /\ resp'.status \in {200, 404}
    /\ ~resp'.body.fetched

C26_WorkersNeverStop ==
    /\ []<>(ipPc = "fetch")
    /\ []<>(ipPc = "sleep")
    /\ []<>(seriesPc = "fetch")
    /\ []<>(seriesPc = "sleep")
    /\ [](resp # NoResp => resp.status \in {200, 204})

\* After failed attempts of both workers, each has started its next attempt,
\* and a request was answered in between.
C26_Witness ==
    /\ ipLast = [by |-> "worker", outcome |-> "failed", before |-> Range(LOCALHOST_IPS)]
    /\ ipPc = "fetch"
    /\ seriesLast = [by |-> "worker", outcome |-> "failed"]
    /\ seriesPc = "fetch"

\* C27: the shared catalog is in case-insensitive order of the names in
\* every reachable state; it changes only in the step that ends a fetch,
\* which swaps in the whole list, sorted, or the empty list of a failed
\* fetch; the list a fetch is building is never what a reader is given: the
\* debug route answers with the start and the size of the catalog as it
\* stands.
C27_CatalogAlwaysSorted ==
    /\ [](NameOrdered(SERIES_DATA))
    /\ [][SERIES_DATA' # SERIES_DATA =>
            /\ fetchPc # "idle"
            /\ fetchPc' = "idle"
            /\ NameOrdered(SERIES_DATA')]_vars
    /\ [](resp.route = "/series/debug" =>
            /\ resp.body.total_series = Len(SERIES_DATA)
            /\ resp.body.first_10_series = Take(SERIES_DATA, DebugWindow)
            /\ NameOrdered(resp.body.first_10_series))

\* A refresh has fetched "Alpha Force" and then "aa" and has not sorted them
\* yet, while the catalog holds the sorted list of an earlier refresh and
\* the debug route has just answered with it.
C27_Witness ==
    /\ fetchPc # "idle"
    /\ Len(all_series) = 2
    /\ ~NameOrdered(all_series)
    /\ Len(SERIES_DATA) = 2
    /\ SERIES_DATA[1].name = S_aa
    /\ resp.route = "/series/debug"
    /\ resp.body.first_name = S_aa

\* An entry with an id, a non-empty name and at least one issue.
WellFormedEntry(e) == e.id # 0 /\ e.name # <<>> /\ e.issue_count >= 1

\* C28: every entry of the shared catalog, and of the list a fetch is
\* building, has an id, a non-empty name and issue_count >= 1, whatever the
\* pages of the upstream hold: a volume without id or name or with fewer
\* than one issue is never stored.
C28_CatalogEntriesWellFormed ==
    /\ \A k \in 1..Len(SERIES_DATA) : WellFormedEntry(SERIES_DATA[k])
    /\ \A k \in 1..Len(all_series) : WellFormedEntry(all_series[k])

\* A refresh has gone past a full page of which it kept nothing, while the
\* catalog holds the entries of an earlier refresh.
C28_Witness ==
    /\ fetchPc = "sleep"
    /\ offset >= PageLimit
    /\ all_series = <<>>
    /\ SERIES_DATA # <<>>
    /\ seriesLast.outcome = "ok"

AfterFailedCall ==
    /\ resp.route = "/comics/random"
    /\ "upstream" \in DOMAIN resp.q

\* C30: a sample request for several series is all or nothing: when one of
\* its upstream calls fails, by a transport error, a non-2xx status or a
\* body that is not JSON, the answer is a 500 whose body holds the error and
\* success = false and nothing of what the earlier calls fetched; the step
\* that answers leaves the limiter's timestamp and the slots it granted as
\* they are.
C30_SampleAllOrNothing ==
    /\ [](AfterFailedCall =>
            /\ resp.status = 500
            /\ DOMAIN resp.body = {"error", "success"}
            /\ resp.body.success = FALSE
            /\ resp.body.error = str_e(resp.q.upstream))
    /\ [][AfterFailedCall' =>
            /\ last_api_request_time' = last_api_request_time
            /\ grants' = grants]_vars

\* A request for three issues of two series is answered 500 because its
\* third call failed, after two calls that succeeded; the limiter has
\* granted its three calls.
C30_Witness ==
    /\ AfterFailedCall
    /\ resp.status = 500
    /\ resp.q.series_ids = <<"100", "7">>
    /\ resp.q.count = 3
    /\ Len(resp.q.queries) = 3
    /\ Len(grants) = 3

(***************************************************************************)
(* C31                                                                     *)
(***************************************************************************)

\* The issues a list of calls asks for: the sum of their limit parameters.
RECURSIVE IssuesAsked(_)
IssuesAsked(queries) ==
    IF queries = <<>> THEN 0
    ELSE Head(queries).limit + IssuesAsked(Tail(queries))

\* The calls of a request under way or answered stay within the cap.
WithinCap(count, queries) ==
    /\ count <= MAX_COUNT
    /\ Len(queries) <= MAX_COUNT
    /\ IssuesAsked(queries) <= MAX_COUNT

\* A GET of /api/issues/ of thread t goes out in this step.
CallGoesOut(t) == thr[t].pc # "issues_get" /\ thr'[t].pc = "issues_get"

\* Thread t enters rate_limit_api_request in this step.
EntersLimiter(t) == thr[t].pc # "locked" /\ thr'[t].pc = "locked"

\* Thread t comes to a rate_limit_api_request in this step.
ComesToLimiter(t) == thr[t].pc # "acquire" /\ thr'[t].pc = "acquire"

\* C31: a sample request makes at most 10 calls to /api/issues/ and asks for
\* at most 10 issues in all, whatever its count (negative, zero, at or above
\* the cap) and however many series it names; and each call goes out at the
\* end of a rate_limit_api_request of its own: the call leaves in the step
\* that records the grant under the thread's hold of the lock, that hold was
\* taken from the free lock, and a thread comes to the limiter only at the
\* start of its request or after its previous call has answered.
C31_AtMostTenCallsEachRateLimited ==
    /\ [](\A t \in Threads :
            thr[t].pc # "idle" =>
                /\ WithinCap(thr[t].count, thr[t].queries)
                /\ thr[t].n <= MAX_COUNT
                /\ Len(thr[t].queries) <= thr[t].n)
    /\ []((resp # NoResp /\ resp.route = "/comics/random" /\ resp.ran) =>
            WithinCap(resp.q.count, resp.q.queries))
    /\ [][\A t \in Threads :
            /\ CallGoesOut(t) =>
                  /\ thr[t].pc = "locked"
                  /\ api_request_lock = t
                  /\ grants' = Append(grants, now)
            /\ EntersLimiter(t) =>
                  /\ thr[t].pc = "acquire"
                  /\ api_request_lock = 0
                  /\ api_request_lock' = t
            /\ ComesToLimiter(t) =>
                  /\ thr[t].pc \in {"idle", "issues_get"}
                  /\ Len(thr'[t].queries) = Len(thr[t].queries) + 1]_vars

\* A request of 11 issues of two series has been answered after exactly ten
\* calls of limit 1, each with a grant of the limiter.
C31_Witness ==
    /\ resp # NoResp
    /\ resp.route = "/comics/random"
    /\ resp.status = 200
    /\ Len(resp.q.series_ids) = 2
    /\ resp.q.count = MAX_COUNT
    /\ Len(resp.q.queries) = MAX_COUNT
    /\ IssuesAsked(resp.q.queries) = MAX_COUNT
    /\ Len(grants) = MAX_COUNT

====
